---------------------------- MODULE Spec2Model ----------------------------
(***************************************************************************)
(* Edge Collections -> Chrome bookmarks exporter (edge_to_chrome.py).      *)
(*                                                                         *)
(* The model follows main(): the exporter is constructed, the source       *)
(* database is copied, read_edge_collections builds the ordered mapping    *)
(* collection id -> {name, items}, create_html_bookmarks turns it into a   *)
(* NETSCAPE bookmark document and export_to_chrome writes it.              *)
(*                                                                         *)
(* Text is a sequence of one-character strings, so that formatting and     *)
(* escaping are computed character by character.  A Python value is a      *)
(* record [ty, s, n]: None, a str (field s) or an int (field n).           *)
(***************************************************************************)
EXTENDS Integers, Sequences, FiniteSets

VARIABLES
    pc,           \* position of the one thread of control
    db,           \* the snapshot in temp_collections.db (set by the copy)
    tempExists,   \* temp_collections.db is on disk
    conn,         \* "none" | "open" | "closed": the sqlite3 connection
    tables,       \* result of the sqlite_master query (line 34)
    collections,  \* the ordered dict built by read_edge_collections
    k,            \* index of the running for loop (join loop, dump loop)
    fallback,     \* the except sqlite3.OperationalError branch was entered
    dumpLog,      \* what the diagnostic dump printed, one entry per table
    exc,          \* the exception in flight, "none" if there is none
    caught,       \* which except clause of main handled an exception
    html_bookmarks, \* the string create_html_bookmarks returned
    outFile       \* chrome_bookmarks_import.html: <<>> while not written

vars == <<pc, db, tempExists, conn, tables, collections, k, fallback,
          dumpLog, exc, caught, html_bookmarks, outFile>>

\* ------------------------------------------------------------------ bounds
\* rows of the collections table
MaxColl == 2
\* rows of the relationship table
MaxRel == 2
\* collections of a mapping handed directly to create_html_bookmarks
MaxFolders == 2
\* items per collection of such a mapping
MaxEntries == 2
\* characters of an item title of such a mapping
MaxLen == 2

\* --------------------------------------------------------- string literals
UNNAMED_COLLECTION ==
    <<"U", "n", "n", "a", "m", "e", "d", " ", "C", "o", "l", "l", "e", "c",
      "t", "i", "o", "n">>
UNTITLED ==
    <<"U", "n", "t", "i", "t", "l", "e", "d">>
NONE_TEXT ==
    <<"N", "o", "n", "e">>
HDR_DOCTYPE ==
    <<"<", "!", "D", "O", "C", "T", "Y", "P", "E", " ", "N", "E", "T", "S",
      "C", "A", "P", "E", "-", "B", "o", "o", "k", "m", "a", "r", "k", "-",
      "f", "i", "l", "e", "-", "1", ">">>
HDR_COMMENT1 ==
    <<"<", "!", "-", "-", " ", "T", "h", "i", "s", " ", "i", "s", " ", "a",
      "n", " ", "a", "u", "t", "o", "m", "a", "t", "i", "c", "a", "l", "l",
      "y", " ", "g", "e", "n", "e", "r", "a", "t", "e", "d", " ", "f", "i",
      "l", "e", ".">>
HDR_COMMENT2 ==
    <<" ", " ", " ", " ", " ", "I", "t", " ", "w", "i", "l", "l", " ", "b",
      "e", " ", "r", "e", "a", "d", " ", "a", "n", "d", " ", "o", "v", "e",
      "r", "w", "r", "i", "t", "t", "e", "n", ".">>
HDR_COMMENT3 ==
    <<" ", " ", " ", " ", " ", "D", "O", " ", "N", "O", "T", " ", "E", "D",
      "I", "T", "!", " ", "-", "-", ">">>
HDR_META ==
    <<"<", "M", "E", "T", "A", " ", "H", "T", "T", "P", "-", "E", "Q", "U",
      "I", "V", "=", "\"", "C", "o", "n", "t", "e", "n", "t", "-", "T", "y",
      "p", "e", "\"", " ", "C", "O", "N", "T", "E", "N", "T", "=", "\"", "t",
      "e", "x", "t", "/", "h", "t", "m", "l", ";", " ", "c", "h", "a", "r",
      "s", "e", "t", "=", "U", "T", "F", "-", "8", "\"", ">">>
HDR_TITLE ==
    <<"<", "T", "I", "T", "L", "E", ">", "B", "o", "o", "k", "m", "a", "r",
      "k", "s", "<", "/", "T", "I", "T", "L", "E", ">">>
HDR_H1 ==
    <<"<", "H", "1", ">", "B", "o", "o", "k", "m", "a", "r", "k", "s", "<",
      "/", "H", "1", ">">>
OUTER_OPEN ==
    <<"<", "D", "L", ">", "<", "p", ">">>
FOLDER_PRE ==
    <<" ", " ", " ", " ", "<", "D", "T", ">", "<", "H", "3", ">">>
FOLDER_POST ==
    <<"<", "/", "H", "3", ">">>
FOLDER_OPEN ==
    <<" ", " ", " ", " ", "<", "D", "L", ">", "<", "p", ">">>
ITEM_PRE ==
    <<" ", " ", " ", " ", " ", " ", " ", " ", "<", "D", "T", ">", "<", "A",
      " ", "H", "R", "E", "F", "=", "\"">>
ITEM_MID ==
    <<"\"", ">">>
ITEM_POST ==
    <<"<", "/", "A", ">">>
FOLDER_CLOSE ==
    <<" ", " ", " ", " ", "<", "/", "D", "L", ">", "<", "p", ">">>
OUTER_CLOSE ==
    <<"<", "/", "D", "L", ">", "<", "p", ">">>
AMP ==
    <<"&", "a", "m", "p", ";">>
LT ==
    <<"&", "l", "t", ";">>
GT ==
    <<"&", "g", "t", ";">>

\* ----------------------------------------------------------- Python values
None == [ty |-> "NoneType", s |-> <<>>, n |-> 0]
PyStr(chars) == [ty |-> "str", s |-> chars, n |-> 0]
PyInt(i) == [ty |-> "int", s |-> <<>>, n |-> i]

\* bool(v): None, '' and 0 are false
Truthy(v) ==
    CASE v.ty = "NoneType" -> FALSE
      [] v.ty = "str" -> v.s # <<>>
      [] v.ty = "int" -> v.n # 0

\* a or b
PyOr(a, b) == IF Truthy(a) THEN a ELSE b

\* d.get(key, default); d.get(key) is Get(d, key, None)
Get(d, key, default) == IF key \in DOMAIN d THEN d[key] ELSE default

Digit(d) == <<"0", "1", "2", "3", "4", "5", "6", "7", "8", "9">>[d + 1]

RECURSIVE Decimal(_)
\* str(n) for an int n
Decimal(n) ==
    IF n < 0 THEN <<"-">> \o Decimal(0 - n)
    ELSE IF n < 10 THEN <<Digit(n)>>
    ELSE Decimal(n \div 10) \o <<Digit(n % 10)>>

\* f'{v}': a str as it is, None as 'None', an int in decimal
Format(v) ==
    CASE v.ty = "NoneType" -> NONE_TEXT
      [] v.ty = "str" -> v.s
      [] v.ty = "int" -> Decimal(v.n)

\* ------------------------------------------------------------ the database
COLLECTIONS ==
    <<"c", "o", "l", "l", "e", "c", "t", "i", "o", "n", "s">>
ITEMS == <<"i", "t", "e", "m", "s">>
RELATIONSHIP ==
    <<"c", "o", "l", "l", "e", "c", "t", "i", "o", "n", "s", "_", "i", "t",
      "e", "m", "s", "_", "r", "e", "l", "a", "t", "i", "o", "n", "s", "h",
      "i", "p">>
\* tables of another vendor version: one whose name is no bare identifier,
\* one whose name is, one whose name is an SQL keyword, and one whose name
\* reads as a quoted identifier
OTHER_TABLE == <<"s", "y", "n", "c", " ", "s", "t", "a", "t", "e">>
EXTRA_TABLE == <<"o", "t", "h", "e", "r">>
KEYWORD_TABLE == <<"O", "r", "d", "e", "r">>
QUOTED_TABLE == <<"[", "o", "t", "h", "e", "r", "]">>

\* sqlite_master lists the tables in creation order
TableOrder ==
    <<COLLECTIONS, OTHER_TABLE, EXTRA_TABLE, KEYWORD_TABLE, QUOTED_TABLE, ITEMS,
      RELATIONSHIP>>

\* the items.source payloads: SQL NULL, text that is no JSON, a JSON array,
\* a JSON object without "url", and a JSON object with "url"
SrcNull == [kind |-> "null", hasUrl |-> FALSE, url |-> None]
SrcMalformed == [kind |-> "malformed", hasUrl |-> FALSE, url |-> None]
SrcArray == [kind |-> "array", hasUrl |-> FALSE, url |-> None]
SrcNoUrl == [kind |-> "object", hasUrl |-> FALSE, url |-> None]
SrcUrl(u) == [kind |-> "object", hasUrl |-> TRUE, url |-> u]

\* The items table of every snapshot: one row of each kind the reader tells
\* apart, and one whose title and url are numbers (SQLite columns and JSON
\* fields are not typed).  id is the primary key and date_created is
\* distinct per row.
ItemsTable ==
    << [id |-> 1, type |-> "website", title |-> PyStr(<<"a", "&", "b">>),
        source |-> SrcUrl(PyStr(<<"u", "?", "x", "&", "y">>)), date_created |-> 101],
       [id |-> 2, type |-> "website", title |-> None,
        source |-> SrcUrl(PyStr(<<"v">>)), date_created |-> 102],
       [id |-> 3, type |-> "note", title |-> PyStr(<<"n">>),
        source |-> SrcUrl(PyStr(<<"w">>)), date_created |-> 103],
       [id |-> 4, type |-> "website", title |-> PyStr(<<"m">>),
        source |-> SrcMalformed, date_created |-> 104],
       [id |-> 5, type |-> "website", title |-> PyStr(<<"l">>),
        source |-> SrcArray, date_created |-> 105],
       [id |-> 6, type |-> "website", title |-> PyStr(<<"o">>),
        source |-> SrcNoUrl, date_created |-> 106],
       [id |-> 7, type |-> "website", title |-> PyStr(<<"e">>),
        source |-> SrcUrl(PyStr(<<>>)), date_created |-> 107],
       [id |-> 8, type |-> "website", title |-> PyStr(<<"z">>),
        source |-> SrcNull, date_created |-> 108],
       [id |-> 9, type |-> "website", title |-> PyInt(5),
        source |-> SrcUrl(PyInt(7)), date_created |-> 109] >>

ItemIds == {ItemsTable[i].id : i \in 1..Len(ItemsTable)}

\* sequences over S of length at most n
SeqUpTo(S, n) == UNION {[1..m -> S] : m \in 0..n}

TitleVals == {None, PyStr(<<>>), PyStr(<<"T">>)}
NameVals == {None, PyStr(<<>>), PyStr(<<"N">>)}

\* a row of the collections table; key is its primary key
CollRows == [key : 1..MaxColl, title : TitleVals, name : NameVals]

\* the column sets of the collections table the reader provides for
ColumnSets ==
    { {"id", "title", "name"}, {"id", "title"}, {"id", "name"},
      {"collection_id", "title", "name"},
      {"collection_id", "id", "title", "name"} }

\* rows with distinct primary keys 1..m, in key order
KeyedRows(rows) == \A i \in 1..Len(rows) : rows[i].key = i

RelRows == [item_id : ItemIds, parent_id : 1..MaxColl]

PlainRows(m) == [i \in 1..m |-> [key |-> i, title |-> PyStr(<<"R", "L">>), name |-> None]]

AllTables == {COLLECTIONS, ITEMS, RELATIONSHIP}

\* the columns the join query at lines 80-86 names, per table
ItemColumns == {"id", "title", "source", "type", "date_created"}
RelColumns == {"item_id", "parent_id"}

\* snapshots of the expected schema whose collection names vary
NameDbs ==
    { [valid |-> TRUE, tabs |-> AllTables, collCols |-> cs, colls |-> rows,
       rel |-> <<>>, itemCols |-> ItemColumns, relCols |-> RelColumns] :
        cs \in ColumnSets, rows \in {r \in SeqUpTo(CollRows, MaxColl) : KeyedRows(r)} }

\* snapshots of the expected schema whose relationship rows vary
ItemDbs ==
    { [valid |-> TRUE, tabs |-> AllTables, collCols |-> {"id", "title", "name"},
       colls |-> PlainRows(m), rel |-> rel, itemCols |-> ItemColumns,
       relCols |-> RelColumns] :
        m \in 1..MaxColl, rel \in SeqUpTo(RelRows, MaxRel) }

\* snapshots in which an expected table is missing
SchemaDbs ==
    { [valid |-> TRUE, tabs |-> ts, collCols |-> {"id", "title", "name"},
       colls |-> IF COLLECTIONS \in ts THEN PlainRows(m) ELSE <<>>,
       rel |-> IF RELATIONSHIP \in ts /\ m > 0
               THEN <<[item_id |-> 1, parent_id |-> 1]>> ELSE <<>>,
       itemCols |-> IF ITEMS \in ts THEN ItemColumns ELSE {},
       relCols |-> IF RELATIONSHIP \in ts THEN RelColumns ELSE {}] :
        ts \in (SUBSET (AllTables \cup {OTHER_TABLE, EXTRA_TABLE, KEYWORD_TABLE,
                                        QUOTED_TABLE})) \ {AllTables},
        m \in 0..MaxColl }

\* a file that is no SQLite database
NotADb ==
    [valid |-> FALSE, tabs |-> {}, collCols |-> {}, colls |-> <<>>, rel |-> <<>>,
     itemCols |-> {}, relCols |-> {}]

\* snapshots in which the three tables exist and one column the join query
\* names is missing from the items or from the relationship table (no
\* relationship row is kept: the rows of a table lacking a column are not read)
ColumnDbs ==
    { [valid |-> TRUE, tabs |-> AllTables \cup extra,
       collCols |-> {"id", "title", "name"}, colls |-> PlainRows(m),
       rel |-> <<>>, itemCols |-> ItemColumns \ gone, relCols |-> RelColumns \ gone] :
        m \in 0..MaxColl, extra \in {{}, {OTHER_TABLE}},
        gone \in {{c} : c \in ItemColumns \cup RelColumns} }

Databases == NameDbs \cup ItemDbs \cup SchemaDbs \cup ColumnDbs \cup {NotADb}

\* ------------------------------------------------- read_edge_collections
\* cursor.fetchall() of the sqlite_master query
ListedTables(d) == SelectSeq(TableOrder, LAMBDA t : t \in d.tabs)

\* dict(zip(collections_columns, collection_row))
collection_dict(cols, row) ==
    [c \in cols |->
        CASE c = "collection_id" -> IF "id" \in cols THEN None ELSE PyInt(row.key)
          [] c = "id" -> PyInt(row.key)
          [] c = "title" -> row.title
          [] c = "name" -> row.name]

collection_id(d) == PyOr(Get(d, "collection_id", None), Get(d, "id", None))

collection_name(d) ==
    PyOr(Get(d, "title", None), Get(d, "name", PyStr(UNNAMED_COLLECTION)))

\* position of key id in the ordered dict m, 0 if absent
IndexOf(m, id) ==
    IF \E i \in 1..Len(m) : m[i].id = id
    THEN CHOOSE i \in 1..Len(m) : m[i].id = id
    ELSE 0

\* m[id] = {'name': name, 'items': []}: a new key goes last, a key already
\* there keeps its place and gets the new value
DictSet(m, id, name) ==
    LET e == [id |-> id, name |-> name, items |-> <<>>]
    IN  IF IndexOf(m, id) = 0 THEN Append(m, e)
        ELSE [m EXCEPT ![IndexOf(m, id)] = e]

RECURSIVE ParseFrom(_, _, _, _)
ParseFrom(cols, rows, i, m) ==
    IF i > Len(rows) THEN m
    ELSE LET d == collection_dict(cols, rows[i])
         IN  ParseFrom(cols, rows, i + 1,
                       DictSet(m, collection_id(d), collection_name(d)))

\* the for loop over collections_data
ParseCollections(d) == ParseFrom(d.collCols, d.colls, 1, <<>>)

\* the items rows joined to one relationship row
ItemsWithId(id) == SelectSeq(ItemsTable, LAMBDA it : it.id = id)

\* parent_id = ? : SQL equality, which NULL never satisfies
ParentMatches(r, cid) == cid.ty = "int" /\ r.parent_id = cid.n

\* faulty variant of JoinRowItems: the type restriction is missing
JoinRowItemsAnyType(r, cid) ==
    IF ParentMatches(r, cid) THEN ItemsWithId(r.item_id) ELSE <<>>

\* faulty variant of JoinRowItems: the parent restriction is missing
JoinRowItemsAnyParent(r, cid) ==
    SelectSeq(ItemsWithId(r.item_id), LAMBDA it : it.type = "website")

\* what the JOIN ... WHERE yields for one relationship row
JoinRowItems(r, cid) ==
    IF ParentMatches(r, cid)
    THEN SelectSeq(ItemsWithId(r.item_id), LAMBDA it : it.type = "website")
    ELSE <<>>

RECURSIVE JoinFrom(_, _, _)
JoinFrom(rel, i, cid) ==
    IF i > Len(rel) THEN <<>>
    ELSE JoinRowItems(rel[i], cid) \o JoinFrom(rel, i + 1, cid)

\* the rows of the JOIN query for one collection, in relationship order
JoinRows(rel, cid) == JoinFrom(rel, 1, cid)

\* lines 95-102: [raised, url]; raised means the except clause ran (continue)
ExtractUrl(source_blob) ==
    IF source_blob.kind = "null"
    THEN [raised |-> FALSE, url |-> PyStr(<<>>)]
    ELSE IF source_blob.kind \in {"malformed", "array"}
    THEN [raised |-> TRUE, url |-> PyStr(<<>>)]
    ELSE [raised |-> FALSE,
          url |-> IF source_blob.hasUrl THEN source_blob.url ELSE PyStr(<<>>)]

\* lines 105-109
MakeItem(row, url) ==
    [title |-> PyOr(row.title, PyStr(UNTITLED)), url |-> url,
     date_added |-> row.date_created]

\* faulty variant of ExtractItems: an unparsable payload ends the loop
RECURSIVE ExtractFromStopping(_, _, _)
ExtractFromStopping(rows, i, items) ==
    IF i > Len(rows) THEN items
    ELSE LET e == ExtractUrl(rows[i].source)
         IN  IF e.raised THEN items
             ELSE IF Truthy(e.url)
             THEN ExtractFromStopping(rows, i + 1, Append(items, MakeItem(rows[i], e.url)))
             ELSE ExtractFromStopping(rows, i + 1, items)

ExtractItemsStopping(rows, items) == ExtractFromStopping(rows, 1, items)

RECURSIVE ExtractFrom(_, _, _)
ExtractFrom(rows, i, items) ==
    IF i > Len(rows) THEN items
    ELSE LET e == ExtractUrl(rows[i].source)
         IN  IF e.raised THEN ExtractFrom(rows, i + 1, items)
             ELSE IF Truthy(e.url)
             THEN ExtractFrom(rows, i + 1, Append(items, MakeItem(rows[i], e.url)))
             ELSE ExtractFrom(rows, i + 1, items)

\* the for loop over collection_items, appending to the collection's items
ExtractItems(rows, items) == ExtractFrom(rows, 1, items)

\* ------------------------------------------------- create_html_bookmarks
NEWLINE == "\n"

RECURSIVE Replace(_, _, _)
\* str.replace(old, new) for a one-character old
Replace(s, old, new) ==
    IF s = <<>> THEN <<>>
    ELSE (IF Head(s) = old THEN new ELSE <<Head(s)>>) \o Replace(Tail(s), old, new)

\* faulty variant of Escape: & is replaced last, so &lt; becomes &amp;lt;
EscapeAmpLast(title) ==
    Replace(Replace(Replace(title, "<", LT), ">", GT), "&", AMP)

\* line 169
Escape(title) ==
    Replace(Replace(Replace(title, "&", AMP), "<", LT), ">", GT)

\* lines 169-171: [raised, line]; .replace is a method of str only, so a
\* title that is no str raises AttributeError on line 169
BookmarkLine(item) ==
    IF item.title.ty = "str"
    THEN [raised |-> FALSE,
          line |-> ITEM_PRE \o Format(item.url) \o ITEM_MID
                   \o Escape(item.title.s) \o ITEM_POST]
    ELSE [raised |-> TRUE, line |-> <<>>]

\* faulty variant of ItemParts: the URL test is missing
ItemPartsAlways(item) == <<BookmarkLine(item).line>>

\* lines 168-171: what one item appends to html_parts
ItemParts(item) ==
    IF Truthy(item.url) THEN <<BookmarkLine(item).line>> ELSE <<>>

\* line 169 raises for some item of the mapping
BookmarksRaise(m) ==
    \E j \in 1..Len(m) : \E q \in 1..Len(m[j].items) :
        Truthy(m[j].items[q].url) /\ BookmarkLine(m[j].items[q]).raised

RECURSIVE ItemsParts(_, _)
ItemsParts(items, i) ==
    IF i > Len(items) THEN <<>>
    ELSE ItemParts(items[i]) \o ItemsParts(items, i + 1)

\* lines 162-173: what one collection appends to html_parts
FolderParts(c) ==
    <<FOLDER_PRE \o Format(c.name) \o FOLDER_POST, FOLDER_OPEN>>
    \o ItemsParts(c.items, 1) \o <<FOLDER_CLOSE>>

RECURSIVE FoldersParts(_, _)
FoldersParts(m, i) ==
    IF i > Len(m) THEN <<>>
    ELSE FolderParts(m[i]) \o FoldersParts(m, i + 1)

\* lines 151-158
HeaderParts ==
    <<HDR_DOCTYPE, HDR_COMMENT1, HDR_COMMENT2, HDR_COMMENT3, HDR_META,
      HDR_TITLE, HDR_H1, OUTER_OPEN>>

RECURSIVE Join(_, _)
\* '\n'.join(parts) from part i on
Join(parts, i) ==
    IF i > Len(parts) THEN <<>>
    ELSE IF i = Len(parts) THEN parts[i]
    ELSE parts[i] \o <<NEWLINE>> \o Join(parts, i + 1)

\* [raised, text]: the document, unless building it raises AttributeError
create_html_bookmarks(m) ==
    IF BookmarksRaise(m) THEN [raised |-> TRUE, text |-> <<>>]
    ELSE [raised |-> FALSE,
          text |-> Join(HeaderParts \o FoldersParts(m, 1) \o <<OUTER_CLOSE>>, 1)]

\* ------------------------------------------------------------------ main
NoDb == NotADb

Init ==
    /\ pc = "main"
    /\ db = NoDb
    /\ tempExists = FALSE
    /\ conn = "none"
    /\ tables = <<>>
    /\ collections = <<>>
    /\ k = 0
    /\ fallback = FALSE
    /\ dumpLog = <<>>
    /\ exc = "none"
    /\ caught = "none"
    /\ html_bookmarks = <<>>
    /\ outFile = <<>>

\* line 213, __init__: os.environ['LOCALAPPDATA'] raises KeyError when the
\* variable is not set, and the constructor call is outside main's try
Construct ==
    /\ pc = "main"
    /\ \E envSet \in BOOLEAN :
          IF envSet
          THEN pc' = "exists" /\ exc' = exc
          ELSE pc' = "escaped" /\ exc' = "KeyError"
    /\ UNCHANGED <<db, tempExists, conn, tables, collections, k, fallback,
                   dumpLog, caught, html_bookmarks, outFile>>

\* lines 21-22
CheckExists ==
    /\ pc = "exists"
    /\ \E exists \in BOOLEAN :
          IF exists
          THEN pc' = "copy" /\ exc' = exc
          ELSE pc' = "catch" /\ exc' = "FileNotFoundError"
    /\ UNCHANGED <<db, tempExists, conn, tables, collections, k, fallback,
                   dumpLog, caught, html_bookmarks, outFile>>

\* lines 25-26
CopyDb ==
    /\ pc = "copy"
    /\ \E d \in Databases : db' = d
    /\ tempExists' = TRUE
    /\ pc' = "connect"
    /\ UNCHANGED <<conn, tables, collections, k, fallback, dumpLog, exc,
                   caught, html_bookmarks, outFile>>

\* lines 29-30: sqlite3.connect opens the file and reads nothing yet
Connect ==
    /\ pc = "connect"
    /\ conn' = "open"
    /\ pc' = "tables"
    /\ UNCHANGED <<db, tempExists, tables, collections, k, fallback, dumpLog,
                   exc, caught, html_bookmarks, outFile>>

\* lines 33-38: the first query; "file is not a database" is a
\* sqlite3.DatabaseError raised outside the inner try
ListTables ==
    /\ pc = "tables"
    /\ IF db.valid
       THEN tables' = ListedTables(db) /\ pc' = "load" /\ exc' = exc
       ELSE tables' = tables /\ pc' = "finally" /\ exc' = "DatabaseError"
    /\ UNCHANGED <<db, tempExists, conn, collections, k, fallback, dumpLog,
                   caught, html_bookmarks, outFile>>

\* lines 42-75: a missing table raises sqlite3.OperationalError, caught at
\* line 119, before any collection is parsed
LoadAndParse ==
    /\ pc = "load"
    /\ IF COLLECTIONS \in db.tabs /\ ITEMS \in db.tabs
       THEN /\ collections' = ParseCollections(db)
            /\ pc' = "join"
            /\ fallback' = fallback
       ELSE /\ collections' = collections
            /\ pc' = "dump"
            /\ fallback' = TRUE
    /\ k' = 1
    /\ UNCHANGED <<db, tempExists, conn, tables, dumpLog, exc, caught,
                   html_bookmarks, outFile>>

\* the join query compiles: the relationship table exists and every column
\* the query names is there ("no such table", "no such column" otherwise)
QueryRuns(d) ==
    /\ RELATIONSHIP \in d.tabs
    /\ ItemColumns \subseteq d.itemCols
    /\ RelColumns \subseteq d.relCols

\* lines 78-111, one iteration of the loop over collections.items(); a query
\* that does not compile raises sqlite3.OperationalError, caught at line 119
JoinCollection ==
    /\ pc = "join"
    /\ k <= Len(collections)
    /\ IF QueryRuns(db)
       THEN /\ collections' =
                  [collections EXCEPT ![k].items =
                      ExtractItems(JoinRows(db.rel, collections[k].id), @)]
            /\ k' = k + 1
            /\ pc' = pc
            /\ fallback' = fallback
       ELSE /\ collections' = collections
            /\ k' = 1
            /\ pc' = "dump"
            /\ fallback' = TRUE
    /\ UNCHANGED <<db, tempExists, conn, tables, dumpLog, exc, caught,
                   html_bookmarks, outFile>>

\* lines 113-117
JoinDone ==
    /\ pc = "join"
    /\ k > Len(collections)
    /\ pc' = "close"
    /\ UNCHANGED <<db, tempExists, conn, tables, collections, k, fallback,
                   dumpLog, exc, caught, html_bookmarks, outFile>>

\* the characters that start a run of white space between tokens
SqlSpaceChars == {" ", "\t", "\n", "\f", "\r"}

\* the vertical tab (U+000B): skipped inside a run of white space, not
\* accepted where a token starts
VerticalTab == ""

\* the byte order mark (U+FEFF): skipped where a token starts
ByteOrderMark == "﻿"

\* the other control characters, U+0001..U+0008, U+000E..U+001F and U+007F,
\* written as themselves: outside quotes and comments SQLite accepts none
ControlChars ==
    { "", "", "", "", "", "", "", "", "", "", "", "", "", "",
      "", "", "", "", "", "", "", "", "", "", "", "", "" }

\* the characters that end an unquoted SQL identifier: white space, control
\* characters, punctuation and operators (the grave accent is left out only
\* because a string of this module cannot hold it); every other character,
\* the non-ASCII ones included, can be part of the identifier
NonIdentifierChars ==
    SqlSpaceChars \cup {VerticalTab} \cup ControlChars \cup
    { "!", "\"", "#", "%", "&", "'", "(", ")", "*", "+", ",", "-", ".", "/",
      ":", ";", "<", "=", ">", "?", "@", "[", "\\", "]", "^", "{", "|", "}",
      "~" }

\* the characters that open a quoted identifier ('...' is read as one where a
\* table name is expected; the grave accent, which opens one too, cannot be
\* held in a string of this module)
QuoteChars == {"\"", "'", "["}

DigitChars == {"0", "1", "2", "3", "4", "5", "6", "7", "8", "9"}

\* the keywords SQLite does not accept as an unquoted table name
ReservedWords ==
    { <<"a", "d", "d">>,
      <<"a", "l", "l">>,
      <<"a", "l", "t", "e", "r">>,
      <<"a", "n", "d">>,
      <<"a", "s">>,
      <<"a", "u", "t", "o", "i", "n", "c", "r", "e", "m", "e", "n", "t">>,
      <<"b", "e", "t", "w", "e", "e", "n">>,
      <<"c", "a", "s", "e">>,
      <<"c", "h", "e", "c", "k">>,
      <<"c", "o", "l", "l", "a", "t", "e">>,
      <<"c", "o", "m", "m", "i", "t">>,
      <<"c", "o", "n", "s", "t", "r", "a", "i", "n", "t">>,
      <<"c", "r", "e", "a", "t", "e">>,
      <<"d", "e", "f", "a", "u", "l", "t">>,
      <<"d", "e", "f", "e", "r", "r", "a", "b", "l", "e">>,
      <<"d", "e", "l", "e", "t", "e">>,
      <<"d", "i", "s", "t", "i", "n", "c", "t">>,
      <<"d", "r", "o", "p">>,
      <<"e", "l", "s", "e">>,
      <<"e", "s", "c", "a", "p", "e">>,
      <<"e", "x", "c", "e", "p", "t">>,
      <<"e", "x", "i", "s", "t", "s">>,
      <<"f", "o", "r", "e", "i", "g", "n">>,
      <<"f", "r", "o", "m">>,
      <<"g", "r", "o", "u", "p">>,
      <<"h", "a", "v", "i", "n", "g">>,
      <<"i", "n">>,
      <<"i", "n", "d", "e", "x">>,
      <<"i", "n", "s", "e", "r", "t">>,
      <<"i", "n", "t", "e", "r", "s", "e", "c", "t">>,
      <<"i", "n", "t", "o">>,
      <<"i", "s">>,
      <<"i", "s", "n", "u", "l", "l">>,
      <<"j", "o", "i", "n">>,
      <<"l", "i", "m", "i", "t">>,
      <<"n", "o", "t">>,
      <<"n", "o", "t", "h", "i", "n", "g">>,
      <<"n", "o", "t", "n", "u", "l", "l">>,
      <<"n", "u", "l", "l">>,
      <<"o", "n">>,
      <<"o", "r">>,
      <<"o", "r", "d", "e", "r">>,
      <<"p", "r", "i", "m", "a", "r", "y">>,
      <<"r", "e", "f", "e", "r", "e", "n", "c", "e", "s">>,
      <<"r", "e", "t", "u", "r", "n", "i", "n", "g">>,
      <<"s", "e", "l", "e", "c", "t">>,
      <<"s", "e", "t">>,
      <<"t", "a", "b", "l", "e">>,
      <<"t", "h", "e", "n">>,
      <<"t", "o">>,
      <<"t", "r", "a", "n", "s", "a", "c", "t", "i", "o", "n">>,
      <<"u", "n", "i", "o", "n">>,
      <<"u", "n", "i", "q", "u", "e">>,
      <<"u", "p", "d", "a", "t", "e">>,
      <<"u", "s", "i", "n", "g">>,
      <<"v", "a", "l", "u", "e", "s">>,
      <<"w", "h", "e", "n">>,
      <<"w", "h", "e", "r", "e">> }

Lower(c) ==
    CASE c = "A" -> "a"
      [] c = "B" -> "b"
      [] c = "C" -> "c"
      [] c = "D" -> "d"
      [] c = "E" -> "e"
      [] c = "F" -> "f"
      [] c = "G" -> "g"
      [] c = "H" -> "h"
      [] c = "I" -> "i"
      [] c = "J" -> "j"
      [] c = "K" -> "k"
      [] c = "L" -> "l"
      [] c = "M" -> "m"
      [] c = "N" -> "n"
      [] c = "O" -> "o"
      [] c = "P" -> "p"
      [] c = "Q" -> "q"
      [] c = "R" -> "r"
      [] c = "S" -> "s"
      [] c = "T" -> "t"
      [] c = "U" -> "u"
      [] c = "V" -> "v"
      [] c = "W" -> "w"
      [] c = "X" -> "x"
      [] c = "Y" -> "y"
      [] c = "Z" -> "z"
      [] OTHER -> c

LowerAll(name) == [i \in 1..Len(name) |-> Lower(name[i])]

\* the tables SQLite 3.40 answers for without listing them in sqlite_master:
\* the schema tables and the virtual tables that exist by themselves
\* (dbstat, json_each, json_tree, sqlite_stmt and one per readable pragma)
UnlistedTables ==
    { <<"d", "b", "s", "t", "a", "t">>,
      <<"j", "s", "o", "n", "_", "e", "a", "c", "h">>,
      <<"j", "s", "o", "n", "_", "t", "r", "e", "e">>,
      <<"p", "r", "a", "g", "m", "a", "_", "a", "n", "a", "l", "y", "s",
        "i", "s", "_", "l", "i", "m", "i", "t">>,
      <<"p", "r", "a", "g", "m", "a", "_", "a", "p", "p", "l", "i", "c",
        "a", "t", "i", "o", "n", "_", "i", "d">>,
      <<"p", "r", "a", "g", "m", "a", "_", "a", "u", "t", "o", "_", "v",
        "a", "c", "u", "u", "m">>,
      <<"p", "r", "a", "g", "m", "a", "_", "a", "u", "t", "o", "m", "a",
        "t", "i", "c", "_", "i", "n", "d", "e", "x">>,
      <<"p", "r", "a", "g", "m", "a", "_", "b", "u", "s", "y", "_", "t",
        "i", "m", "e", "o", "u", "t">>,
      <<"p", "r", "a", "g", "m", "a", "_", "c", "a", "c", "h", "e", "_",
        "s", "i", "z", "e">>,
      <<"p", "r", "a", "g", "m", "a", "_", "c", "a", "c", "h", "e", "_",
        "s", "p", "i", "l", "l">>,
      <<"p", "r", "a", "g", "m", "a", "_", "c", "e", "l", "l", "_", "s",
        "i", "z", "e", "_", "c", "h", "e", "c", "k">>,
      <<"p", "r", "a", "g", "m", "a", "_", "c", "h", "e", "c", "k", "p",
        "o", "i", "n", "t", "_", "f", "u", "l", "l", "f", "s", "y", "n", "c">>,
      <<"p", "r", "a", "g", "m", "a", "_", "c", "o", "l", "l", "a", "t",
        "i", "o", "n", "_", "l", "i", "s", "t">>,
      <<"p", "r", "a", "g", "m", "a", "_", "c", "o", "m", "p", "i", "l",
        "e", "_", "o", "p", "t", "i", "o", "n", "s">>,
      <<"p", "r", "a", "g", "m", "a", "_", "c", "o", "u", "n", "t", "_",
        "c", "h", "a", "n", "g", "e", "s">>,
      <<"p", "r", "a", "g", "m", "a", "_", "d", "a", "t", "a", "_", "v",
        "e", "r", "s", "i", "o", "n">>,
      <<"p", "r", "a", "g", "m", "a", "_", "d", "a", "t", "a", "b", "a",
        "s", "e", "_", "l", "i", "s", "t">>,
      <<"p", "r", "a", "g", "m", "a", "_", "d", "e", "f", "a", "u", "l",
        "t", "_", "c", "a", "c", "h", "e", "_", "s", "i", "z", "e">>,
      <<"p", "r", "a", "g", "m", "a", "_", "d", "e", "f", "e", "r", "_",
        "f", "o", "r", "e", "i", "g", "n", "_", "k", "e", "y", "s">>,
      <<"p", "r", "a", "g", "m", "a", "_", "e", "m", "p", "t", "y", "_",
        "r", "e", "s", "u", "l", "t", "_", "c", "a", "l", "l", "b", "a",
        "c", "k", "s">>,
      <<"p", "r", "a", "g", "m", "a", "_", "e", "n", "c", "o", "d", "i",
        "n", "g">>,
      <<"p", "r", "a", "g", "m", "a", "_", "f", "o", "r", "e", "i", "g",
        "n", "_", "k", "e", "y", "_", "c", "h", "e", "c", "k">>,
      <<"p", "r", "a", "g", "m", "a", "_", "f", "o", "r", "e", "i", "g",
        "n", "_", "k", "e", "y", "_", "l", "i", "s", "t">>,
      <<"p", "r", "a", "g", "m", "a", "_", "f", "o", "r", "e", "i", "g",
        "n", "_", "k", "e", "y", "s">>,
      <<"p", "r", "a", "g", "m", "a", "_", "f", "r", "e", "e", "l", "i",
        "s", "t", "_", "c", "o", "u", "n", "t">>,
      <<"p", "r", "a", "g", "m", "a", "_", "f", "u", "l", "l", "_", "c",
        "o", "l", "u", "m", "n", "_", "n", "a", "m", "e", "s">>,
      <<"p", "r", "a", "g", "m", "a", "_", "f", "u", "l", "l", "f", "s",
        "y", "n", "c">>,
      <<"p", "r", "a", "g", "m", "a", "_", "f", "u", "n", "c", "t", "i",
        "o", "n", "_", "l", "i", "s", "t">>,
      <<"p", "r", "a", "g", "m", "a", "_", "h", "a", "r", "d", "_", "h",
        "e", "a", "p", "_", "l", "i", "m", "i", "t">>,
      <<"p", "r", "a", "g", "m", "a", "_", "i", "g", "n", "o", "r", "e",
        "_", "c", "h", "e", "c", "k", "_", "c", "o", "n", "s", "t", "r",
        "a", "i", "n", "t", "s">>,
      <<"p", "r", "a", "g", "m", "a", "_", "i", "n", "d", "e", "x", "_",
        "i", "n", "f", "o">>,
      <<"p", "r", "a", "g", "m", "a", "_", "i", "n", "d", "e", "x", "_",
        "l", "i", "s", "t">>,
      <<"p", "r", "a", "g", "m", "a", "_", "i", "n", "d", "e", "x", "_",
        "x", "i", "n", "f", "o">>,
      <<"p", "r", "a", "g", "m", "a", "_", "i", "n", "t", "e", "g", "r",
        "i", "t", "y", "_", "c", "h", "e", "c", "k">>,
      <<"p", "r", "a", "g", "m", "a", "_", "j", "o", "u", "r", "n", "a",
        "l", "_", "m", "o", "d", "e">>,
      <<"p", "r", "a", "g", "m", "a", "_", "j", "o", "u", "r", "n", "a",
        "l", "_", "s", "i", "z", "e", "_", "l", "i", "m", "i", "t">>,
      <<"p", "r", "a", "g", "m", "a", "_", "l", "e", "g", "a", "c", "y",
        "_", "a", "l", "t", "e", "r", "_", "t", "a", "b", "l", "e">>,
      <<"p", "r", "a", "g", "m", "a", "_", "l", "o", "c", "k", "i", "n",
        "g", "_", "m", "o", "d", "e">>,
      <<"p", "r", "a", "g", "m", "a", "_", "m", "a", "x", "_", "p", "a",
        "g", "e", "_", "c", "o", "u", "n", "t">>,
      <<"p", "r", "a", "g", "m", "a", "_", "m", "o", "d", "u", "l", "e",
        "_", "l", "i", "s", "t">>,
      <<"p", "r", "a", "g", "m", "a", "_", "o", "p", "t", "i", "m", "i",
        "z", "e">>,
      <<"p", "r", "a", "g", "m", "a", "_", "p", "a", "g", "e", "_", "c",
        "o", "u", "n", "t">>,
      <<"p", "r", "a", "g", "m", "a", "_", "p", "a", "g", "e", "_", "s",
        "i", "z", "e">>,
      <<"p", "r", "a", "g", "m", "a", "_", "p", "r", "a", "g", "m", "a",
        "_", "l", "i", "s", "t">>,
      <<"p", "r", "a", "g", "m", "a", "_", "q", "u", "e", "r", "y", "_",
        "o", "n", "l", "y">>,
      <<"p", "r", "a", "g", "m", "a", "_", "q", "u", "i", "c", "k", "_",
        "c", "h", "e", "c", "k">>,
      <<"p", "r", "a", "g", "m", "a", "_", "r", "e", "a", "d", "_", "u",
        "n", "c", "o", "m", "m", "i", "t", "t", "e", "d">>,
      <<"p", "r", "a", "g", "m", "a", "_", "r", "e", "c", "u", "r", "s",
        "i", "v", "e", "_", "t", "r", "i", "g", "g", "e", "r", "s">>,
      <<"p", "r", "a", "g", "m", "a", "_", "r", "e", "v", "e", "r", "s",
        "e", "_", "u", "n", "o", "r", "d", "e", "r", "e", "d", "_", "s",
        "e", "l", "e", "c", "t", "s">>,
      <<"p", "r", "a", "g", "m", "a", "_", "s", "c", "h", "e", "m", "a",
        "_", "v", "e", "r", "s", "i", "o", "n">>,
      <<"p", "r", "a", "g", "m", "a", "_", "s", "e", "c", "u", "r", "e",
        "_", "d", "e", "l", "e", "t", "e">>,
      <<"p", "r", "a", "g", "m", "a", "_", "s", "h", "o", "r", "t", "_",
        "c", "o", "l", "u", "m", "n", "_", "n", "a", "m", "e", "s">>,
      <<"p", "r", "a", "g", "m", "a", "_", "s", "o", "f", "t", "_", "h",
        "e", "a", "p", "_", "l", "i", "m", "i", "t">>,
      <<"p", "r", "a", "g", "m", "a", "_", "s", "y", "n", "c", "h", "r",
        "o", "n", "o", "u", "s">>,
      <<"p", "r", "a", "g", "m", "a", "_", "t", "a", "b", "l", "e", "_",
        "i", "n", "f", "o">>,
      <<"p", "r", "a", "g", "m", "a", "_", "t", "a", "b", "l", "e", "_",
        "l", "i", "s", "t">>,
      <<"p", "r", "a", "g", "m", "a", "_", "t", "a", "b", "l", "e", "_",
        "x", "i", "n", "f", "o">>,
      <<"p", "r", "a", "g", "m", "a", "_", "t", "e", "m", "p", "_", "s",
        "t", "o", "r", "e">>,
      <<"p", "r", "a", "g", "m", "a", "_", "t", "h", "r", "e", "a", "d", "s">>,
      <<"p", "r", "a", "g", "m", "a", "_", "t", "r", "u", "s", "t", "e",
        "d", "_", "s", "c", "h", "e", "m", "a">>,
      <<"p", "r", "a", "g", "m", "a", "_", "u", "s", "e", "r", "_", "v",
        "e", "r", "s", "i", "o", "n">>,
      <<"p", "r", "a", "g", "m", "a", "_", "w", "r", "i", "t", "a", "b",
        "l", "e", "_", "s", "c", "h", "e", "m", "a">>,
      <<"s", "q", "l", "i", "t", "e", "_", "m", "a", "s", "t", "e", "r">>,
      <<"s", "q", "l", "i", "t", "e", "_", "s", "c", "h", "e", "m", "a">>,
      <<"s", "q", "l", "i", "t", "e", "_", "s", "t", "m", "t">>,
      <<"s", "q", "l", "i", "t", "e", "_", "t", "e", "m", "p", "_", "m",
        "a", "s", "t", "e", "r">>,
      <<"s", "q", "l", "i", "t", "e", "_", "t", "e", "m", "p", "_", "s",
        "c", "h", "e", "m", "a">> }

\* the position after the white space, byte order marks and comments that
\* start at i; run tells that position i - 1 ended in a run of white space;
\* 0 when a comment is not closed (the rest of the statement is lost in it)
RECURSIVE SkipBlank(_, _, _)
SkipBlank(t, i, run) ==
    IF i > Len(t) THEN i
    ELSE IF t[i] \in SqlSpaceChars THEN SkipBlank(t, i + 1, TRUE)
    ELSE IF t[i] = VerticalTab /\ run THEN SkipBlank(t, i + 1, TRUE)
    ELSE IF t[i] = ByteOrderMark THEN SkipBlank(t, i + 1, FALSE)
    ELSE IF i < Len(t) /\ t[i] = "/" /\ t[i + 1] = "*"
    THEN LET ends == { j \in (i + 2)..(Len(t) - 1) :
                          t[j] = "*" /\ t[j + 1] = "/" }
         IN  IF ends = {} THEN 0
             ELSE SkipBlank(t, (CHOOSE j \in ends : \A e \in ends : j <= e) + 2,
                            FALSE)
    ELSE IF i < Len(t) /\ t[i] = "-" /\ t[i + 1] = "-"
    THEN LET ends == { j \in (i + 2)..Len(t) : t[j] = "\n" }
         IN  IF ends = {} THEN 0
             ELSE SkipBlank(t, (CHOOSE j \in ends : \A e \in ends : j <= e) + 1,
                            TRUE)
    ELSE i

NoToken == [ok |-> FALSE, name |-> <<>>, next |-> 0]

\* a quoted identifier whose body starts at i: it runs to the closing quote,
\* and inside "..." and '...' a doubled quote stands for one
RECURSIVE QuotedFrom(_, _, _, _)
QuotedFrom(t, i, close, doubling) ==
    IF i > Len(t) THEN NoToken
    ELSE IF t[i] = close
    THEN IF doubling /\ i < Len(t) /\ t[i + 1] = close
         THEN LET r == QuotedFrom(t, i + 2, close, doubling)
              IN  [r EXCEPT !.name = <<close>> \o r.name]
         ELSE [ok |-> TRUE, name |-> <<>>, next |-> i + 1]
    ELSE LET r == QuotedFrom(t, i + 1, close, doubling)
         IN  [r EXCEPT !.name = <<t[i]>> \o r.name]

\* an unquoted identifier starting at i: it does not start with a digit or
\* with $ (a bind parameter) and is no reserved keyword
BareFrom(t, i) ==
    LET stops == { j \in i..Len(t) : t[j] \in NonIdentifierChars }
        end == IF stops = {} THEN Len(t) + 1
               ELSE CHOOSE j \in stops : \A e \in stops : j <= e
        word == SubSeq(t, i, end - 1)
    IN  IF /\ word # <<>>
           /\ word[1] \notin DigitChars \cup {"$"}
           /\ LowerAll(word) \notin ReservedWords
        THEN [ok |-> TRUE, name |-> word, next |-> end]
        ELSE NoToken

NameToken(t, i) ==
    IF i > Len(t) THEN NoToken
    ELSE IF t[i] \in QuoteChars
    THEN QuotedFrom(t, i + 1, IF t[i] = "[" THEN "]" ELSE t[i], t[i] # "[")
    ELSE BareFrom(t, i)

\* the table that the text put between "table_info(" and ")" and after "FROM"
\* names: the text has to be one name, with white space and comments around
\* it at most
TableNamed(text) ==
    LET i == SkipBlank(text, 1, FALSE)
        tok == IF i = 0 THEN NoToken ELSE NameToken(text, i)
        j == IF tok.ok THEN SkipBlank(text, tok.next, FALSE) ELSE 0
    IN  IF tok.ok /\ j = Len(text) + 1 THEN tok ELSE NoToken

\* f"PRAGMA table_info({table_name})" and f"SELECT * FROM {table_name} LIMIT 3"
\* succeed exactly when the interpolated text names a table SQLite answers
\* for: one of tabs, the tables and views of the database, or an unlisted one
\* (table names compare without regard to ASCII case)
InspectOk(table_name, tabs) ==
    LET named == TableNamed(table_name)
    IN  /\ named.ok
        /\ LowerAll(named.name) \in
              { LowerAll(n) : n \in tabs \cup UnlistedTables }

\* faulty variant of DumpTable: a failed inspection is not caught
DumpTableRaising ==
    /\ pc = "dump"
    /\ k <= Len(tables)
    /\ IF InspectOk(tables[k], db.tabs)
       THEN /\ dumpLog' = Append(dumpLog, [table |-> tables[k], ok |-> TRUE])
            /\ k' = k + 1
            /\ pc' = pc
            /\ exc' = exc
       ELSE /\ dumpLog' = dumpLog
            /\ k' = k
            /\ pc' = "finally"
            /\ exc' = "OperationalError"
    /\ UNCHANGED <<db, tempExists, conn, tables, collections, fallback,
                   caught, html_bookmarks, outFile>>

\* lines 124-136, one iteration of the dump loop: the table's columns and
\* sample are printed, or the error is (except Exception)
DumpTable ==
    /\ pc = "dump"
    /\ k <= Len(tables)
    /\ dumpLog' = Append(dumpLog, [table |-> tables[k],
                                   ok |-> InspectOk(tables[k], db.tabs)])
    /\ k' = k + 1
    /\ UNCHANGED <<pc, db, tempExists, conn, tables, collections, fallback,
                   exc, caught, html_bookmarks, outFile>>

DumpDone ==
    /\ pc = "dump"
    /\ k > Len(tables)
    /\ pc' = "close"
    /\ UNCHANGED <<db, tempExists, conn, tables, collections, k, fallback,
                   dumpLog, exc, caught, html_bookmarks, outFile>>

\* lines 138-139
CloseAndReturn ==
    /\ pc = "close"
    /\ conn' = "closed"
    /\ pc' = "finally"
    /\ UNCHANGED <<db, tempExists, tables, collections, k, fallback, dumpLog,
                   exc, caught, html_bookmarks, outFile>>

\* lines 141-144.  os.remove of a file the process still has open succeeds
\* on POSIX and raises PermissionError on Windows: either may happen while
\* the connection is open.
Finally ==
    /\ pc = "finally"
    /\ \E inUse \in (IF conn = "open" THEN BOOLEAN ELSE {FALSE}) :
          IF inUse
          THEN /\ tempExists' = tempExists
               /\ exc' = "PermissionError"
               /\ pc' = "catch"
          ELSE /\ tempExists' = FALSE
               /\ exc' = exc
               /\ pc' = IF exc = "none" THEN "export" ELSE "catch"
    /\ UNCHANGED <<db, conn, tables, collections, k, fallback, dumpLog,
                   caught, html_bookmarks, outFile>>

\* lines 181-210.  An empty mapping returns early.  Otherwise the document
\* is built (AttributeError for a title that is no str) and written; the
\* messages printed after the write hold U+2713 and U+22EE, which raise
\* UnicodeEncodeError on a stdout whose encoding lacks them.
ExportToChrome ==
    /\ pc = "export"
    /\ IF collections = <<>>
       THEN /\ html_bookmarks' = html_bookmarks
            /\ outFile' = outFile
            /\ exc' = exc
            /\ pc' = "done"
       ELSE IF create_html_bookmarks(collections).raised
       THEN /\ html_bookmarks' = html_bookmarks
            /\ outFile' = outFile
            /\ exc' = "AttributeError"
            /\ pc' = "catch"
       ELSE /\ html_bookmarks' = create_html_bookmarks(collections).text
            /\ outFile' = html_bookmarks'
            /\ \E stdoutEncodes \in BOOLEAN :
                  IF stdoutEncodes
                  THEN exc' = exc /\ pc' = "done"
                  ELSE exc' = "UnicodeEncodeError" /\ pc' = "catch"
    /\ UNCHANGED <<db, tempExists, conn, tables, collections, k, fallback,
                   dumpLog, caught>>

\* lines 217-223
MainCatch ==
    /\ pc = "catch"
    /\ caught' = IF exc = "FileNotFoundError" THEN "FileNotFoundError"
                 ELSE "Exception"
    /\ exc' = "none"
    /\ pc' = "done"
    /\ UNCHANGED <<db, tempExists, conn, tables, collections, k, fallback,
                   dumpLog, html_bookmarks, outFile>>

Next ==
    \/ Construct
    \/ CheckExists
    \/ CopyDb
    \/ Connect
    \/ ListTables
    \/ LoadAndParse
    \/ JoinCollection
    \/ JoinDone
    \/ DumpTable
    \/ DumpDone
    \/ CloseAndReturn
    \/ Finally
    \/ ExportToChrome
    \/ MainCatch

Spec == Init /\ [][Next]_vars

\* ------------------------------------- create_html_bookmarks called alone
TitleChars == {"&", "<", ">", "a"}
URL_AMP == <<"u", "?", "x", "&", "y">>

\* mappings of one collection with one item whose title varies
TitleMaps ==
    { << [id |-> PyInt(1), name |-> PyStr(<<"R">>),
          items |-> << [title |-> PyStr(t), url |-> PyStr(URL_AMP),
                        date_added |-> 0] >>] >> :
        t \in SeqUpTo(TitleChars, MaxLen) }

\* the items of the mappings whose shape varies: one without URL and two
\* that differ in title and URL
EntryKinds ==
    { [title |-> PyStr(<<"n">>), url |-> PyStr(<<>>), date_added |-> 0],
      [title |-> PyStr(<<"a", "<">>), url |-> PyStr(<<"u">>), date_added |-> 0],
      [title |-> PyStr(<<"b">>), url |-> PyStr(<<"v", "&", "w">>), date_added |-> 0] }

FolderKinds == SeqUpTo(EntryKinds, MaxEntries)

\* the display name of the j-th folder; names are emitted as they are
FolderName(j) == IF j % 2 = 1 THEN PyStr(<<"F", "&", "<">>) ELSE PyStr(<<"G">>)

ShapeMaps ==
    { [j \in 1..Len(f) |->
          [id |-> PyInt(j), name |-> FolderName(j), items |-> f[j]]] :
        f \in SeqUpTo(FolderKinds, MaxFolders) }

\* mappings of one collection with one item whose name, title or URL is no
\* str, with and without a URL
UntypedMaps ==
    { << [id |-> PyInt(1), name |-> n,
          items |-> << [title |-> t, url |-> u, date_added |-> 0] >>] >> :
        n \in {PyStr(<<"R">>), None, PyInt(12)},
        t \in {PyStr(<<"a">>), None, PyInt(5)},
        u \in {PyStr(<<>>), PyStr(<<"u">>), PyInt(7), None} }

Mappings == TitleMaps \cup ShapeMaps \cup UntypedMaps

SerInit ==
    /\ pc = "call"
    /\ collections \in Mappings
    /\ db = NoDb
    /\ tempExists = FALSE
    /\ conn = "none"
    /\ tables = <<>>
    /\ k = 0
    /\ fallback = FALSE
    /\ dumpLog = <<>>
    /\ exc = "none"
    /\ caught = "none"
    /\ html_bookmarks = <<>>
    /\ outFile = <<>>

\* lines 146-177: the call returns the document or raises
CreateHtmlBookmarks ==
    /\ pc = "call"
    /\ IF create_html_bookmarks(collections).raised
       THEN /\ html_bookmarks' = html_bookmarks
            /\ exc' = "AttributeError"
            /\ pc' = "raised"
       ELSE /\ html_bookmarks' = create_html_bookmarks(collections).text
            /\ exc' = exc
            /\ pc' = "returned"
    /\ UNCHANGED <<db, tempExists, conn, tables, collections, k, fallback,
                   dumpLog, caught, outFile>>

SerNext == CreateHtmlBookmarks

SpecSerializer == SerInit /\ [][SerNext]_vars

\* =============================================================== properties
\* ---- reading a document back
RECURSIVE LinesAfter(_, _, _)
\* the lines of doc after position p, NL being the positions of its line breaks
LinesAfter(doc, NL, p) ==
    LET later == {i \in NL : i > p}
    IN  IF later = {} THEN <<SubSeq(doc, p + 1, Len(doc))>>
        ELSE LET b == CHOOSE i \in later : \A x \in later : i <= x
             IN  <<SubSeq(doc, p + 1, b - 1)>> \o LinesAfter(doc, NL, b)

\* the lines of a document: the text between consecutive line breaks
Lines(doc) == LinesAfter(doc, {i \in 1..Len(doc) : doc[i] = NEWLINE}, 0)

IsPrefix(p, s) == Len(p) <= Len(s) /\ SubSeq(s, 1, Len(p)) = p
IsSuffix(p, s) == Len(p) <= Len(s) /\ SubSeq(s, Len(s) - Len(p) + 1, Len(s)) = p

\* the items of a collection that have a non-empty URL, in order
WithUrl(items) == SelectSeq(items, LAMBDA it : Truthy(it.url))

RECURSIVE FolderStart(_, _)
\* line number of the folder line of the j-th collection of mapping m:
\* 8 header lines, then per earlier folder its 3 lines and its entries
FolderStart(m, j) ==
    IF j = 1 THEN 9
    ELSE FolderStart(m, j - 1) + 3 + Len(WithUrl(m[j - 1].items))

\* number of lines of the document of mapping m
DocLength(m) ==
    IF m = <<>> THEN 9
    ELSE FolderStart(m, Len(m)) + 3 + Len(WithUrl(m[Len(m)].items))

RECURSIVE Depths(_, _, _)
\* nesting depth after each line: <DL><p> opens, </DL><p> closes
Depths(L, i, d) ==
    IF i > Len(L) THEN <<>>
    ELSE LET d2 == IF L[i] \in {OUTER_OPEN, FOLDER_OPEN} THEN d + 1
                   ELSE IF L[i] \in {OUTER_CLOSE, FOLDER_CLOSE} THEN d - 1
                   ELSE d
         IN  <<d2>> \o Depths(L, i + 1, d2)

\* one character of a title as it must appear in the anchor text
EscapedChar(c) ==
    CASE c = "&" -> AMP
      [] c = "<" -> LT
      [] c = ">" -> GT
      [] OTHER -> <<c>>

RECURSIVE EscapedText(_)
EscapedText(t) ==
    IF t = <<>> THEN <<>> ELSE EscapedChar(Head(t)) \o EscapedText(Tail(t))

\* C8: every emitted anchor is HREF="<the item URL unchanged>" followed by
\* the title with each of & < > replaced exactly once, character by character.
C8_AnchorEscaping ==
    pc = "returned" =>
        LET L == Lines(html_bookmarks)
        IN  \A j \in 1..Len(collections) :
              LET kept == WithUrl(collections[j].items)
              IN  \A q \in 1..Len(kept) :
                    /\ FolderStart(collections, j) + 1 + q <= Len(L)
                    /\ L[FolderStart(collections, j) + 1 + q] =
                          ITEM_PRE \o Format(kept[q].url) \o ITEM_MID
                          \o EscapedText(kept[q].title.s) \o ITEM_POST

\* an anchor was emitted for a title holding both < and &, with a URL holding &
C8_Witness ==
    /\ pc = "returned"
    /\ \E j \in 1..Len(collections) :
         \E q \in 1..Len(collections[j].items) :
            /\ collections[j].items[q].title = PyStr(<<"<", "&">>)
            /\ collections[j].items[q].url = PyStr(URL_AMP)

\* C10: after the fixed header the document holds one folder per mapping
\* entry in mapping order, in each folder one entry per item with a non-empty
\* URL in item order, and every <DL><p> is closed: folders one after the
\* other at depth 2, the outer list last.
C10_DocumentStructure ==
    pc = "returned" =>
        LET L == Lines(html_bookmarks)
            m == collections
            D == Depths(L, 1, 0)
        IN  /\ Len(L) = DocLength(m)
            /\ SubSeq(L, 1, 8) = HeaderParts
            /\ L[Len(L)] = OUTER_CLOSE
            /\ \A j \in 1..Len(m) :
                 LET s == FolderStart(m, j)
                     kept == WithUrl(m[j].items)
                 IN  /\ L[s] = FOLDER_PRE \o Format(m[j].name) \o FOLDER_POST
                     /\ L[s + 1] = FOLDER_OPEN
                     /\ \A q \in 1..Len(kept) :
                          /\ IsPrefix(ITEM_PRE \o Format(kept[q].url) \o ITEM_MID,
                                      L[s + 1 + q])
                          /\ IsSuffix(ITEM_POST, L[s + 1 + q])
                     /\ L[s + 2 + Len(kept)] = FOLDER_CLOSE
                     /\ D[s + 1] = 2
                     /\ D[s + 2 + Len(kept)] = 1
            /\ \A i \in 1..Len(L) : D[i] >= (IF i < 8 THEN 0 ELSE IF i < Len(L) THEN 1 ELSE 0)
            /\ \A i \in 1..Len(L) : D[i] <= 2
            /\ D[Len(L)] = 0
            /\ Cardinality({i \in 1..Len(L) : L[i] \in {OUTER_OPEN, FOLDER_OPEN}})
                 = 1 + Len(m)
            /\ Cardinality({i \in 1..Len(L) : L[i] \in {OUTER_CLOSE, FOLDER_CLOSE}})
                 = 1 + Len(m)

\* two folders were serialized, the first holding an item without URL ahead
\* of one with a URL
C10_Witness ==
    /\ pc = "returned"
    /\ Len(collections) = 2
    /\ Len(collections[1].items) = 2
    /\ ~Truthy(collections[1].items[1].url)
    /\ Truthy(collections[1].items[2].url)
    /\ collections[2].items # <<>>

\* ---- the snapshot, read declaratively
\* read_edge_collections has returned or raised
AfterRead == pc \in {"export", "catch", "done"}

\* the collections and items tables were loaded and the rows parsed
Parsed ==
    /\ pc \in {"join", "dump", "close", "finally", "export", "catch", "done"}
    /\ db.valid
    /\ COLLECTIONS \in db.tabs
    /\ ITEMS \in db.tabs

\* the join loop ran to its end
Joined == Parsed /\ ~fallback /\ pc # "join"

ItemRow(id) == CHOOSE it \in {ItemsTable[i] : i \in 1..Len(ItemsTable)} : it.id = id

\* the payload is a JSON object with a non-empty url
UsablePayload(it) ==
    it.source.kind = "object" /\ it.source.hasUrl /\ Truthy(it.source.url)

\* the relationship rows that link a website item with a usable payload to
\* the collection with primary key key, in table order
LinksOf(key) ==
    SelectSeq(db.rel, LAMBDA r :
        /\ r.parent_id = key
        /\ ItemRow(r.item_id).type = "website"
        /\ UsablePayload(ItemRow(r.item_id)))

\* the item row with primary key id appears in the items of entry e
Holds(e, id) ==
    \E q \in 1..Len(e.items) : e.items[q].date_added = ItemRow(id).date_created

\* C1: once read_edge_collections has returned or raised, the connection is
\* closed and temp_collections.db is gone.
C1_ResourcesReleased ==
    AfterRead => (conn # "open" /\ ~tempExists)

\* C2: a row whose title and name are both null, or both empty, gets the
\* name 'Unnamed Collection', whether or not the table has a name column.
C2_PlaceholderName ==
    Parsed =>
        \A i \in 1..Len(db.colls) :
            LET row == db.colls[i]
                blank == \/ (row.title = None /\ row.name = None)
                         \/ (row.title = PyStr(<<>>) /\ row.name = PyStr(<<>>))
            IN  blank => collections[i].name = PyStr(UNNAMED_COLLECTION)

\* C3: an item whose payload is missing, unparsable or without a non-empty
\* url is in no collection, the join loop raises nothing, and every linked
\* website item with a usable payload is extracted, once per link, in order.
C3_BadPayloadSkipped ==
    /\ pc = "join" => exc = "none"
    /\ (Parsed /\ ~fallback) =>
         \A j \in 1..Len(collections) :
            (pc = "join" => j < k) =>
               /\ \A id \in ItemIds :
                     ~UsablePayload(ItemRow(id)) => ~Holds(collections[j], id)
               /\ Len(collections[j].items) = Len(LinksOf(collections[j].id.n))
               /\ \A q \in 1..Len(LinksOf(collections[j].id.n)) :
                     collections[j].items[q].date_added =
                        ItemRow(LinksOf(collections[j].id.n)[q].item_id).date_created

\* a collection was joined whose first linked item has an unparsable payload
\* and whose second linked item was extracted
C3_Witness ==
    /\ Joined
    /\ pc = "done"
    /\ Len(db.rel) = 2
    /\ db.rel[1] = [item_id |-> 4, parent_id |-> 1]
    /\ db.rel[2] = [item_id |-> 1, parent_id |-> 1]
    /\ Len(collections) >= 1
    /\ Len(collections[1].items) = 1
    /\ collections[1].items[1].date_added = 101

\* C4, as stated: no item is in the items of two collections.
C4_OneCollectionPerItem ==
    \A id \in ItemIds :
        \A i, j \in 1..Len(collections) :
            (Holds(collections[i], id) /\ Holds(collections[j], id)) => i = j

\* C4, amended: an item is in the items of a collection exactly as often as
\* the relationship table links it to that collection; an item linked to
\* several collections is in each of them.
C4_ItemsFollowLinks ==
    (Parsed /\ ~fallback) =>
        \A j \in 1..Len(collections) :
            (pc = "join" => j < k) =>
               \A id \in ItemIds :
                  LET e == collections[j]
                      n == Cardinality({q \in 1..Len(e.items) :
                              e.items[q].date_added = ItemRow(id).date_created})
                      links == Cardinality({q \in 1..Len(db.rel) :
                                  /\ db.rel[q].item_id = id
                                  /\ db.rel[q].parent_id = e.id.n})
                  IN  /\ n \in {0, links}
                      /\ (links = 0 => n = 0)
                      /\ (links > 0 /\ ItemRow(id).type = "website"
                            /\ UsablePayload(ItemRow(id))) => n = links

\* one item, linked to two collections, was extracted into both
C4_Witness ==
    /\ Joined
    /\ Len(collections) = 2
    /\ Holds(collections[1], 1)
    /\ Holds(collections[2], 1)

\* C5: when a table or a column is missing, read_edge_collections raises
\* nothing: every discovered table is dumped in order, a table whose
\* inspection fails (its name, put unquoted into the statement, names no
\* table) is logged and the next one is dumped, and the mapping built so far
\* (every parsed collection, without items) is returned.
C5_FallbackDump ==
    /\ (pc = "dump" => (fallback /\ exc = "none"))
    /\ (fallback /\ pc \in {"close", "finally", "export"}) =>
         (exc = "none" /\ caught = "none")
    /\ (fallback /\ pc \in {"close", "finally", "export", "catch", "done"}) =>
         /\ Len(tables) = Cardinality(db.tabs)
         /\ Len(dumpLog) = Len(tables)
         /\ \A i \in 1..Len(tables) :
               /\ dumpLog[i].table = tables[i]
               /\ dumpLog[i].table \in db.tabs
               /\ dumpLog[i].ok =
                    (/\ tables[i] \notin {OTHER_TABLE, KEYWORD_TABLE}
                     /\ tables[i] = QUOTED_TABLE => EXTRA_TABLE \in db.tabs)
         /\ Len(collections) = (IF COLLECTIONS \in db.tabs /\ ITEMS \in db.tabs
                                THEN Len(db.colls) ELSE 0)
         /\ \A j \in 1..Len(collections) : collections[j].items = <<>>
    /\ (fallback /\ pc \in {"export", "catch", "done"}) =>
         (conn = "closed" /\ ~tempExists)

\* the three tables exist and the join failed for lack of a column, a table
\* that cannot be inspected was followed by one that can, and a non-empty
\* mapping came back
C5_Witness ==
    /\ pc = "done"
    /\ caught = "none"
    /\ fallback
    /\ AllTables \subseteq db.tabs
    /\ ~(ItemColumns \subseteq db.itemCols /\ RelColumns \subseteq db.relCols)
    /\ collections # <<>>
    /\ Len(dumpLog) = 4
    /\ ~dumpLog[2].ok
    /\ dumpLog[3].ok

\* C6: a missing source fails with FileNotFoundError before any copy or
\* connection exists, main catches it and writes nothing; and no exception
\* at all propagates out of main.
C6_MainNeverRaises ==
    /\ pc # "escaped"
    /\ (pc = "done" => exc = "none")
    /\ caught = "FileNotFoundError" =>
          (~tempExists /\ conn = "none" /\ outFile = <<>> /\ pc = "done")

\* C7: when read_edge_collections has returned the parsed collections, the
\* finished run has written every collection without surviving items to the
\* output file as an empty folder: its folder line, <DL><p>, </DL><p>.
C7_EmptyFolder ==
    (Parsed /\ pc = "done" /\ conn = "closed") =>
        \A j \in 1..Len(db.colls) :
            (fallback \/ LinksOf(db.colls[j].key) = <<>>) =>
                LET L == Lines(outFile)
                    s == FolderStart(collections, j)
                IN  /\ outFile # <<>>
                    /\ collections[j].id = PyInt(db.colls[j].key)
                    /\ s + 2 <= Len(L)
                    /\ L[s] = FOLDER_PRE \o Format(collections[j].name) \o FOLDER_POST
                    /\ L[s + 1] = FOLDER_OPEN
                    /\ L[s + 2] = FOLDER_CLOSE

\* C9: no item row whose type is not 'website' is in the items of any
\* collection, and so none is in the output.
C9_OnlyWebsites ==
    LET L == Lines(outFile)
    IN  \A id \in ItemIds :
            ItemRow(id).type # "website" =>
                /\ \A j \in 1..Len(collections) : ~Holds(collections[j], id)
                /\ \A i \in 1..Len(L) :
                      ~IsPrefix(ITEM_PRE \o Format(ItemRow(id).source.url)
                                \o ITEM_MID, L[i])

\* a note with a valid URL payload was linked to a collection that was joined
\* and written
C9_Witness ==
    /\ Joined
    /\ pc = "done"
    /\ outFile # <<>>
    /\ \E q \in 1..Len(db.rel) :
          /\ db.rel[q].item_id = 3
          /\ db.rel[q].parent_id <= Len(collections)
    /\ \E j \in 1..Len(collections) : collections[j].items # <<>>
=============================================================================
